---- MODULE Spec2Model ----
(***************************************************************************)
(* Model of spark_rapids_ml/params.py: the synchronisation of Spark ML     *)
(* Params with the cuML parameter dictionary (cuml_params) of _CumlParams. *)
(*                                                                         *)
(* Python dictionaries are functions over a finite set of strings, the     *)
(* ordered dictionaries the code iterates (_param_mapping().items(),       *)
(* kwargs.items()) are sequences of <<key, value>> pairs, and every value  *)
(* is a string; Python's None is the string None.                          *)
(***************************************************************************)
EXTENDS Integers, Sequences, FiniteSets, TLC

VARIABLES
    cls,        \* the concrete _CumlParams subclass of the instances
    paramMap,   \* paramMap[i]: the explicitly set Spark Params of instance i
    classDict,  \* the class attribute _CumlParams.cuml_params, shared
    hasOwn,     \* hasOwn[i]: instance i has its own cuml_params attribute
    own,        \* own[i]: that attribute (meaningful when hasOwn[i])
    last        \* the call that led to this state, and how it ended

vars == <<cls, paramMap, classDict, hasOwn, own, last>>

----------------------------------------------------------------------------
(* Bounds *)

\* The longest kwargs a set_params call is given.
MaxBatch == 3

\* The longest kwargs a set_params call is given when two instances are
\* called on.
MaxPairBatch == 1

\* The longest list of cuML classes _cuml_cls is taken to return.
MaxClasses == 2

----------------------------------------------------------------------------
(* Python values and dictionaries *)

None == "None"

NoKey == "-"

EmptyDict == [x \in {} |-> None]

\* d[k] = v
SetItem(d, k, v) == [x \in DOMAIN d \cup {k} |-> IF x = k THEN v ELSE d[x]]

\* del d[k]
DelItem(d, k) == [x \in DOMAIN d \ {k} |-> d[x]]

\* d.update(e)
Update(d, e) == [x \in DOMAIN d \cup DOMAIN e |-> IF x \in DOMAIN e THEN e[x] ELSE d[x]]

\* d.get(k, None)
Get(d, k) == IF k \in DOMAIN d THEN d[k] ELSE None

\* bool(v) of a string or None
Truthy(v) == v # None /\ v # ""

\* dict(pairs) of a sequence of <<key, value>> pairs
Keys(pairs) == {pairs[j][1] : j \in 1..Len(pairs)}

Lookup(pairs, k) == pairs[CHOOSE j \in 1..Len(pairs) : pairs[j][1] = k][2]

----------------------------------------------------------------------------
(* The concrete classes: what each subclass overrides and registers *)

Classes == {"PCA", "LinearRegression", "Ridge", "KMeans", "DBSCAN"}

\* The classes of which two instances are called on.
PairClasses == {"KMeans", "DBSCAN"}

Instances == {"a", "b"}

\* The instances the calls are made on.
Actors == {"a"}

\* The Spark ML Params the class declares (hasParam).
SparkParams(c) ==
    CASE c = "PCA" -> {"k"}
      [] c = "LinearRegression" -> {"loss"}
      [] c = "Ridge" -> {"solver", "verbose"}
      [] c = "KMeans" -> {"k"}
      [] c = "DBSCAN" -> {"eps"}

\* The defaults the class registers with _setDefault.
DefaultParamMap(c) ==
    CASE c = "PCA" -> [x \in {"k"} |-> "3"]
      [] c = "LinearRegression" -> [x \in {"loss"} |-> "squaredError"]
      [] c = "Ridge" -> EmptyDict
      [] c = "KMeans" -> [x \in {"k"} |-> "3"]
      [] c = "DBSCAN" -> EmptyDict

_cuml_cls(c) ==
    CASE c = "PCA" -> <<"cuml.PCA">>
      [] c = "LinearRegression" -> <<"cuml.LinearRegression">>
      [] c = "Ridge" -> <<"cuml.Ridge", "cuml.CD">>
      [] c = "KMeans" -> <<"cuml.KMeans">>
      [] c = "DBSCAN" -> <<"cuml.DBSCAN">>

_param_excludes(c) == {"handle"}

_param_mapping(c) ==
    CASE c = "PCA" -> << <<"k", "n_components">> >>
      [] c = "LinearRegression" -> << <<"loss", "loss">> >>
      [] c = "Ridge" -> << <<"solver", "algorithm">> >>
      [] c = "KMeans" -> << <<"k", "n_clusters">>, <<"tol", "tolerance">> >>
      [] c = "DBSCAN" -> << <<"eps", "epsilon">> >>

_param_value_mapping(c) ==
    CASE c = "LinearRegression" ->
            [n \in {"loss"} |->
                [s \in {"squaredError", "huber"} |->
                    IF s = "squaredError" THEN "squared_loss" ELSE None]]
      [] c = "Ridge" ->
            [n \in {"algorithm"} |->
                [s \in {"auto", "eig", "none", "l-bfgs"} |->
                    CASE s = "auto" -> "eig"
                      [] s = "eig" -> "svd"
                      [] s = "none" -> ""
                      [] s = "l-bfgs" -> None]]
      [] OTHER -> EmptyDict

\* The constructor signature of a cuML class: parameter name -> default.
Signature(t) ==
    CASE t = "cuml.PCA" ->
            [x \in {"n_components", "whiten", "handle"} |->
                CASE x = "n_components" -> "1" [] x = "whiten" -> "False" [] x = "handle" -> None]
      [] t = "cuml.LinearRegression" ->
            [x \in {"loss", "handle"} |->
                CASE x = "loss" -> "squared_loss" [] x = "handle" -> None]
      [] t = "cuml.Ridge" ->
            [x \in {"algorithm", "verbose", "handle"} |->
                CASE x = "algorithm" -> "eig" [] x = "verbose" -> "False" [] x = "handle" -> None]
      [] t = "cuml.CD" ->
            [x \in {"algorithm", "handle"} |->
                CASE x = "algorithm" -> "svd" [] x = "handle" -> None]
      [] t = "cuml.KMeans" ->
            [x \in {"n_clusters", "tolerance", "handle"} |->
                CASE x = "n_clusters" -> "8" [] x = "tolerance" -> "1e-4" [] x = "handle" -> None]
      [] t = "cuml.DBSCAN" ->
            [x \in {"min_samples", "handle"} |->
                CASE x = "min_samples" -> "5" [] x = "handle" -> None]

\* The keys a set_params call is given, and the values it gives each.
KeysOf(c) ==
    CASE c = "PCA" -> {"k", "n_components", "whiten", "bogus"}
      [] c = "LinearRegression" -> {"loss"}
      [] c = "Ridge" -> {"solver", "algorithm", "verbose"}
      [] c = "KMeans" -> {"k", "tol", "tolerance"}
      [] c = "DBSCAN" -> {"eps", "epsilon", "min_samples"}

ValuesOf(c, k) ==
    CASE c = "PCA" /\ k = "k" -> {"3", "5"}
      [] c = "PCA" /\ k = "n_components" -> {"5", "7"}
      [] c = "LinearRegression" /\ k = "loss" ->
            {"squaredError", "squared_loss", "huber", "absoluteError"}
      [] c = "Ridge" /\ k = "solver" -> {"auto", "eig", "none", "l-bfgs"}
      [] c = "Ridge" /\ k = "algorithm" -> {"eig", "l-bfgs"}
      [] c = "DBSCAN" /\ k = "min_samples" -> {"7"}
      [] OTHER -> {"5"}

----------------------------------------------------------------------------
(* The Spark ML Params store of an instance (pyspark.ml.param.Params) *)

\* An instance as the methods see it: pm its explicitly set Params, cd the
\* class attribute cuml_params, has/own its own cuml_params attribute.
InstanceState(i) ==
    [pm |-> paramMap[i], cd |-> classDict, has |-> hasOwn[i], own |-> own[i]]

hasParam(c, k) == k \in SparkParams(c)

hasDefault(c, p) == p \in DOMAIN DefaultParamMap(c)

isDefined(c, st, p) == p \in DOMAIN st.pm \/ hasDefault(c, p)

\* Defined when isDefined; getOrDefault raises KeyError otherwise.
getOrDefault(c, st, p) == IF p \in DOMAIN st.pm THEN st.pm[p] ELSE DefaultParamMap(c)[p]

_set(st, p, v) == [st EXCEPT !.pm = SetItem(st.pm, p, v)]

\* self.cuml_params: the instance attribute when there is one, else the class's.
cuml_params(st) == IF st.has THEN st.own ELSE st.cd

\* self.cuml_params[k] = v
SetCumlItem(st, k, v) ==
    IF st.has THEN [st EXCEPT !.own = SetItem(st.own, k, v)]
    ELSE [st EXCEPT !.cd = SetItem(st.cd, k, v)]

----------------------------------------------------------------------------
(* _CumlClass._get_cuml_params_default *)

_get_default_params_from_func(t, excludes) ==
    [x \in DOMAIN Signature(t) \ excludes |-> Signature(t)[x]]

RECURSIVE MergeDefaults(_, _, _, _)
\* The merge keeping the default of the earlier class on a collision.
MergeDefaults_earlier_wins(c, types, j, params) ==
    IF j > Len(types) THEN params
    ELSE MergeDefaults(c, types, j + 1,
            Update(_get_default_params_from_func(types[j], _param_excludes(c)), params))

MergeDefaults(c, types, j, params) ==
    IF j > Len(types) THEN params
    ELSE MergeDefaults(c, types, j + 1,
            Update(params, _get_default_params_from_func(types[j], _param_excludes(c))))

_get_cuml_params_default(c) == MergeDefaults(c, _cuml_cls(c), 1, EmptyDict)

----------------------------------------------------------------------------
(* _CumlParams._set_cuml_value *)

supported_values(value_map, k) ==
    {value_map[k][x] : x \in DOMAIN value_map[k]} \ {None}

\* _set_cuml_value letting a value that is no source key of the table through.
_set_cuml_value_passthrough(c, st, k, v) ==
    LET value_map == _param_value_mapping(c) IN
    IF k \notin DOMAIN value_map \/ v \in supported_values(value_map, k)
          \/ v \notin DOMAIN value_map[k]
    THEN [st |-> SetCumlItem(st, k, v), status |-> "ok"]
    ELSE IF Truthy(value_map[k][v])
         THEN [st |-> SetCumlItem(st, k, value_map[k][v]), status |-> "ok"]
         ELSE [st |-> st, status |-> "unsupported_value"]

\* _set_cuml_value looking the value up as a source key before it tests
\* whether it is already a native value.
_set_cuml_value_map_first(c, st, k, v) ==
    LET value_map == _param_value_mapping(c) IN
    IF k \notin DOMAIN value_map
    THEN [st |-> SetCumlItem(st, k, v), status |-> "ok"]
    ELSE IF Truthy(Get(value_map[k], v))
    THEN [st |-> SetCumlItem(st, k, value_map[k][v]), status |-> "ok"]
    ELSE IF v \in supported_values(value_map, k)
    THEN [st |-> SetCumlItem(st, k, v), status |-> "ok"]
    ELSE [st |-> st, status |-> "unsupported_value"]

_set_cuml_value(c, st, k, v) ==
    LET value_map == _param_value_mapping(c) IN
    IF k \notin DOMAIN value_map
    THEN [st |-> SetCumlItem(st, k, v), status |-> "ok"]
    ELSE IF v \in supported_values(value_map, k)
    THEN [st |-> SetCumlItem(st, k, v), status |-> "ok"]
    ELSE LET mapped_v == Get(value_map[k], v) IN
         IF Truthy(mapped_v)
         THEN [st |-> SetCumlItem(st, k, mapped_v), status |-> "ok"]
         ELSE [st |-> st, status |-> "unsupported_value"]

----------------------------------------------------------------------------
(* _CumlParams.initialize_cuml_params *)

\* Lines 153-156, from the j-th item of param_map on.
RECURSIVE InitLoop(_, _, _, _)
InitLoop(c, st, param_map, j) ==
    IF j > Len(param_map) THEN [st |-> st, status |-> "ok", key |-> NoKey, val |-> NoKey]
    ELSE LET spark_param == param_map[j][1]
             cuml_param == param_map[j][2]
         IN
         IF ~hasParam(c, spark_param)
         THEN \* hasDefault resolves the name with getattr
              [st |-> st, status |-> "attribute_error", key |-> spark_param, val |-> NoKey]
         ELSE IF hasDefault(c, spark_param)
         THEN LET value == getOrDefault(c, st, spark_param)
                  r == _set_cuml_value(c, st, cuml_param, value)
              IN IF r.status = "ok" THEN InitLoop(c, r.st, param_map, j + 1)
                 ELSE [st |-> r.st, status |-> r.status, key |-> cuml_param, val |-> value]
         ELSE InitLoop(c, st, param_map, j + 1)

\* initialize_cuml_params installing, on a failure, the defaults of the
\* classes that precede the first one that cannot be introspected.
initialize_cuml_params_partial(c, st, broken) ==
    LET bad == {j \in 1..Len(_cuml_cls(c)) : _cuml_cls(c)[j] \in broken} IN
    IF bad # {}
    THEN LET first == CHOOSE j \in bad : \A i \in bad : j <= i IN
         [st |-> [st EXCEPT !.has = TRUE,
                            !.own = MergeDefaults(c, SubSeq(_cuml_cls(c), 1, first - 1),
                                                  1, EmptyDict)],
          status |-> "introspection_error", key |-> NoKey, val |-> NoKey]
    ELSE InitLoop(c, [st EXCEPT !.has = TRUE, !.own = _get_cuml_params_default(c)],
                  _param_mapping(c), 1)

\* initialize_cuml_params keeping the values the table already holds.
initialize_cuml_params_keep(c, st, broken) ==
    IF \E j \in 1..Len(_cuml_cls(c)) : _cuml_cls(c)[j] \in broken
    THEN [st |-> st, status |-> "introspection_error", key |-> NoKey, val |-> NoKey]
    ELSE InitLoop(c, [st EXCEPT !.has = TRUE,
                                !.own = Update(_get_cuml_params_default(c), cuml_params(st))],
                  _param_mapping(c), 1)

\* broken: the cuML classes whose constructor cannot be introspected.
initialize_cuml_params(c, st, broken) ==
    IF \E j \in 1..Len(_cuml_cls(c)) : _cuml_cls(c)[j] \in broken
    THEN [st |-> st, status |-> "introspection_error", key |-> NoKey, val |-> NoKey]
    ELSE InitLoop(c, [st EXCEPT !.has = TRUE, !.own = _get_cuml_params_default(c)],
                  _param_mapping(c), 1)

----------------------------------------------------------------------------
(* _CumlParams.set_params *)

\* Lines 166-174: a kwargs that names both sides of a mapping.
AliasClash(param_map, kwargs) ==
    \E j \in 1..Len(param_map) :
        /\ param_map[j][1] # param_map[j][2]
        /\ param_map[j][1] \in Keys(kwargs)
        /\ param_map[j][2] \in Keys(kwargs)

\* Lines 186-190, from the j-th item of param_map on.
RECURSIVE SetSparkAliases(_, _, _, _, _, _)
SetSparkAliases(c, st, param_map, j, k, v) ==
    IF j > Len(param_map) THEN [st |-> st, status |-> "ok"]
    ELSE IF k = param_map[j][2]
    THEN IF hasParam(c, param_map[j][1])
         THEN SetSparkAliases(c, _set(st, param_map[j][1], v), param_map, j + 1, k, v)
         ELSE \* _set resolves the name with getattr
              [st |-> st, status |-> "attribute_error"]
    ELSE SetSparkAliases(c, st, param_map, j + 1, k, v)

\* Lines 177-182: the Spark ML Param case of one key.
SetSparkSide(c, st, param_map, k, v) ==
    IF hasParam(c, k)
    THEN LET st1 == _set(st, k, v) IN
         IF k \in Keys(param_map)
         THEN _set_cuml_value(c, st1, Lookup(param_map, k), v)
         ELSE [st |-> st1, status |-> "ok"]
    ELSE [st |-> st, status |-> "ok"]

\* The cuML parameter case storing the value through _set_cuml_value.
SetCumlSide_translated(c, st, param_map, k, v) ==
    IF k \in DOMAIN cuml_params(st) /\ ~hasParam(c, k)
    THEN LET r == _set_cuml_value(c, st, k, v) IN
         IF r.status # "ok" THEN r
         ELSE SetSparkAliases(c, r.st, param_map, 1, k, cuml_params(r.st)[k])
    ELSE [st |-> st, status |-> "ok"]

\* The cuML parameter case taken for a Spark Param as well.
SetCumlSide_any_key(c, st, param_map, k, v) ==
    IF k \in DOMAIN cuml_params(st)
    THEN SetSparkAliases(c, SetCumlItem(st, k, v), param_map, 1, k, v)
    ELSE [st |-> st, status |-> "ok"]

\* The cuML parameter case storing a key the table does not have.
SetCumlSide_new_key(c, st, param_map, k, v) ==
    IF ~hasParam(c, k)
    THEN SetSparkAliases(c, SetCumlItem(st, k, v), param_map, 1, k, v)
    ELSE [st |-> st, status |-> "ok"]

\* Lines 183-190: the cuML parameter case of one key.
SetCumlSide(c, st, param_map, k, v) ==
    IF k \in DOMAIN cuml_params(st) /\ ~hasParam(c, k)
    THEN SetSparkAliases(c, SetCumlItem(st, k, v), param_map, 1, k, v)
    ELSE [st |-> st, status |-> "ok"]

\* Lines 192-197.
UnsupportedParam(c, st, param_map, k) ==
    /\ ~hasParam(c, k)
    /\ k \notin Keys(param_map)
    /\ k \notin DOMAIN cuml_params(st)

\* Lines 176-198, from the j-th item of kwargs on.
RECURSIVE SetLoop(_, _, _, _, _)
SetLoop(c, st, param_map, kwargs, j) ==
    IF j > Len(kwargs)
    THEN [st |-> st, status |-> "ok", key |-> NoKey, val |-> NoKey, n |-> Len(kwargs)]
    ELSE LET k == kwargs[j][1]
             v == kwargs[j][2]
             r1 == SetSparkSide(c, st, param_map, k, v)
             r2 == SetCumlSide(c, r1.st, param_map, k, v)
         IN
         IF r1.status # "ok"
         THEN [st |-> r1.st, status |-> r1.status, key |-> k, val |-> v, n |-> j - 1]
         ELSE IF r2.status # "ok"
         THEN [st |-> r2.st, status |-> r2.status, key |-> k, val |-> v, n |-> j - 1]
         ELSE IF UnsupportedParam(c, r2.st, param_map, k)
         THEN [st |-> r2.st, status |-> "unsupported_param", key |-> k, val |-> v, n |-> j - 1]
         ELSE SetLoop(c, r2.st, param_map, kwargs, j + 1)

\* set_params with the alias check made after the keys are applied.
set_params_alias_check_last(c, st, kwargs) ==
    LET param_map == _param_mapping(c)
        r == SetLoop(c, st, param_map, kwargs, 1)
    IN
    IF r.status = "ok" /\ AliasClash(param_map, kwargs)
    THEN [st |-> r.st, status |-> "alias_error", key |-> NoKey, val |-> NoKey, n |-> 0]
    ELSE r

set_params(c, st, kwargs) ==
    LET param_map == _param_mapping(c) IN
    IF AliasClash(param_map, kwargs)
    THEN [st |-> st, status |-> "alias_error", key |-> NoKey, val |-> NoKey, n |-> 0]
    ELSE SetLoop(c, st, param_map, kwargs, 1)

----------------------------------------------------------------------------
(* _CumlParams.clear *)

\* param is a Param of the instance (Params.clear rejects any other).
clear(c, st, param) ==
    LET st1 == [st EXCEPT !.pm = DelItem(st.pm, param)]
        param_map == _param_mapping(c)
    IN
    IF param \in Keys(param_map)
    THEN IF isDefined(c, st1, param)
         THEN [st |-> SetCumlItem(st1, Lookup(param_map, param), getOrDefault(c, st1, param)),
               status |-> "ok"]
         ELSE [st |-> st1, status |-> "key_error"]
    ELSE [st |-> st1, status |-> "ok"]

----------------------------------------------------------------------------
(* _CumlParams._copy_cuml_params *)

\* Lines 225-227 with both tables in hand: the target's table afterwards.
\* The loop adding to the target the keys only the source has.
CopyItems_all_keys(source, target) == Update(target, source)

CopyItems(source, target) ==
    [x \in DOMAIN target |-> IF x \in DOMAIN source THEN source[x] ELSE target[x]]

\* self._copy_cuml_params(to), self with table source and to with table
\* target: to's table afterwards, and the object returned.
_copy_cuml_params(source, target, to) ==
    [table |-> CopyItems(source, target), ret |-> to]

----------------------------------------------------------------------------
(* The calls *)

Items(c) == UNION {{<<k, v>> : v \in ValuesOf(c, k)} : k \in KeysOf(c)}

\* The kwargs of a set_params call: up to MaxBatch items with distinct keys.
RECURSIVE Batches(_, _)
Batches(c, n) ==
    IF n = 0 THEN {<<>>}
    ELSE LET shorter == Batches(c, n - 1) IN
         shorter \cup
         {Append(b, kv) : b \in {x \in shorter : Len(x) = n - 1},
                                kv \in Items(c)}

DistinctKeys(b) == \A i, j \in 1..Len(b) : i # j => b[i][1] # b[j][1]

Kwargs(c) == {b \in Batches(c, MaxBatch) : Len(b) > 0 /\ DistinctKeys(b)}

\* The native names a direct _set_cuml_value call is given.
CumlNames(c) == {_param_mapping(c)[j][2] : j \in 1..Len(_param_mapping(c))}

\* The values a direct _set_cuml_value call is given.
CumlValues(c, k) ==
    UNION {ValuesOf(c, x) : x \in {k} \cup {_param_mapping(c)[j][1] : j \in 1..Len(_param_mapping(c))}}

Store(self, st) ==
    /\ paramMap' = [paramMap EXCEPT ![self] = st.pm]
    /\ classDict' = st.cd
    /\ hasOwn' = [hasOwn EXCEPT ![self] = st.has]
    /\ own' = [own EXCEPT ![self] = st.own]
    /\ UNCHANGED cls

Init ==
    /\ cls \in Classes
    /\ paramMap = [i \in Instances |-> EmptyDict]
    /\ classDict = EmptyDict
    /\ hasOwn = [i \in Instances |-> FALSE]
    /\ own = [i \in Instances |-> EmptyDict]
    /\ last = [op |-> "new", self |-> NoKey, status |-> "ok",
               key |-> NoKey, val |-> NoKey, n |-> 0]

Initialize(self) ==
    \E broken \in {{}} \cup {{_cuml_cls(cls)[j]} : j \in 1..Len(_cuml_cls(cls))} :
        LET r == initialize_cuml_params(cls, InstanceState(self), broken) IN
        /\ Store(self, r.st)
        /\ last' = [op |-> "initialize_cuml_params", self |-> self, status |-> r.status,
                    key |-> r.key, val |-> r.val, n |-> 0]

SetParams(self) ==
    \E kwargs \in Kwargs(cls) :
        LET r == set_params(cls, InstanceState(self), kwargs) IN
        /\ Store(self, r.st)
        /\ last' = [op |-> "set_params", self |-> self, status |-> r.status,
                    key |-> r.key, val |-> r.val, n |-> r.n]

Clear(self) ==
    \E param \in SparkParams(cls) :
        LET r == clear(cls, InstanceState(self), param) IN
        /\ Store(self, r.st)
        /\ last' = [op |-> "clear", self |-> self, status |-> r.status,
                    key |-> param, val |-> NoKey, n |-> 0]

SetCumlValue(self) ==
    \E k \in CumlNames(cls) : \E v \in CumlValues(cls, k) :
        LET r == _set_cuml_value(cls, InstanceState(self), k, v) IN
        /\ Store(self, r.st)
        /\ last' = [op |-> "_set_cuml_value", self |-> self, status |-> r.status,
                    key |-> k, val |-> v, n |-> 0]

CopyCumlParams(self) ==
    \E to \in Instances :
        LET r == _copy_cuml_params(cuml_params(InstanceState(self)),
                                   cuml_params(InstanceState(to)), to)
        IN
        /\ IF hasOwn[to]
           THEN own' = [own EXCEPT ![to] = r.table] /\ UNCHANGED classDict
           ELSE classDict' = r.table /\ UNCHANGED own
        /\ UNCHANGED <<cls, paramMap, hasOwn>>
        /\ last' = [op |-> "_copy_cuml_params", self |-> self, status |-> "ok",
                    key |-> to, val |-> r.ret, n |-> 0]

Next ==
    \E self \in Actors :
        \/ Initialize(self)
        \/ SetParams(self)
        \/ Clear(self)
        \/ SetCumlValue(self)
        \/ CopyCumlParams(self)

Spec == Init /\ [][Next]_vars

\* Two instances of one class, each called on: set_params with kwargs of up
\* to MaxPairBatch keys.
SetParamsPair(self) ==
    \E kwargs \in {b \in Kwargs(cls) : Len(b) <= MaxPairBatch} :
        LET r == set_params(cls, InstanceState(self), kwargs) IN
        /\ Store(self, r.st)
        /\ last' = [op |-> "set_params", self |-> self, status |-> r.status,
                    key |-> r.key, val |-> r.val, n |-> r.n]

InitPair == Init /\ cls \in PairClasses

NextPair ==
    \E self \in Instances :
        \/ Initialize(self)
        \/ SetParamsPair(self)
        \/ Clear(self)
        \/ SetCumlValue(self)
        \/ CopyCumlParams(self)

SpecPair == InitPair /\ [][NextPair]_vars

----------------------------------------------------------------------------
(* What the claims speak of *)

\* The name-mapping pairs <<s, n>> whose s is a Spark Param of the class.
MappedPairs(c) ==
    {_param_mapping(c)[j] : j \in {x \in 1..Len(_param_mapping(c)) :
                                      hasParam(c, _param_mapping(c)[x][1])}}

HasTable(c, n) == n \in DOMAIN _param_value_mapping(c)

\* The source keys of n's table whose target is null: the unsupported values.
NullSources(c, n) ==
    {x \in DOMAIN _param_value_mapping(c)[n] : _param_value_mapping(c)[n][x] = None}

\* The non-null targets of n's table.
Targets(c, n) ==
    {_param_value_mapping(c)[n][x] : x \in DOMAIN _param_value_mapping(c)[n] \ NullSources(c, n)}

\* x is Spark value v as the native table of n is to hold it: v itself, or its
\* translation (or v, when v is already a native target) when n has a table.
Reflects(c, n, v, x) ==
    IF ~HasTable(c, n) THEN x = v
    ELSE \/ v \in Targets(c, n) /\ x = v
         \/ /\ v \in DOMAIN _param_value_mapping(c)[n] \ NullSources(c, n)
            /\ x = _param_value_mapping(c)[n][v]

\* I1 for one instance.
I1(c, st) ==
    \A p \in MappedPairs(c) :
        isDefined(c, st, p[1]) =>
            /\ p[2] \in DOMAIN cuml_params(st)
            /\ Reflects(c, p[2], getOrDefault(c, st, p[1]), cuml_params(st)[p[2]])

----------------------------------------------------------------------------
(* C1 *)

\* C1: after a completed initialize_cuml_params, set_params or clear call on
\* an instance that has been initialized, every mapped Spark Param with a
\* default or explicit value is reflected, translated where a value mapping
\* exists, by the native entry of its mapped name (I1).
C1_I1AfterCompletedCall ==
    /\ last.op \in {"initialize_cuml_params", "set_params", "clear"}
    /\ last.status = "ok"
    /\ hasOwn[last.self]
    => I1(cls, InstanceState(last.self))

----------------------------------------------------------------------------
(* C2 *)

\* C2: in every reachable state no native entry that has a value-mapping
\* table holds a value the table marks unsupported.
C2_NoUnsupportedValueStored ==
    \A i \in Instances :
        \A n \in DOMAIN _param_value_mapping(cls) :
            n \in DOMAIN cuml_params(InstanceState(i)) =>
                cuml_params(InstanceState(i))[n] \notin NullSources(cls, n)

----------------------------------------------------------------------------
(* C3 *)

\* C3: in every reachable state, a set_params call whose keys contain both
\* names of a name-mapping pair (s, n) with s # n ends with the alias error
\* and leaves the Spark store and the native table exactly as they were,
\* whatever other keys the call is given.
C3_AliasErrorBeforeAnyKey ==
    \A i \in Actors :
        \A kwargs \in Kwargs(cls) :
            (\E j \in 1..Len(_param_mapping(cls)) :
                /\ _param_mapping(cls)[j][1] # _param_mapping(cls)[j][2]
                /\ {_param_mapping(cls)[j][1], _param_mapping(cls)[j][2]} \subseteq Keys(kwargs))
            => LET r == set_params(cls, InstanceState(i), kwargs) IN
               /\ r.status = "alias_error"
               /\ r.st = InstanceState(i)

\* A set_params call on an initialized instance ended with the alias error.
C3_Witness ==
    /\ last.op = "set_params"
    /\ last.status = "alias_error"
    /\ hasOwn[last.self]
    /\ paramMap[last.self] # EmptyDict

----------------------------------------------------------------------------
(* C4 *)

\* The entry of key k in dictionary d, when there is one.
Entry(d, k) == IF k \in DOMAIN d THEN <<d[k]>> ELSE <<>>

\* C4: a set_params call that fails on a key because its value has no native
\* equivalent leaves that key's entry of the Spark store and the entry of its
\* mapped name in the native table as they were before the call (the
\* offending value is applied to neither side).
C4_OffendingValueNotApplied ==
    [][(/\ last'.op = "set_params"
        /\ last'.status = "unsupported_value")
       => /\ Entry(paramMap'[last'.self], last'.key) = Entry(paramMap[last'.self], last'.key)
          /\ \A p \in MappedPairs(cls) :
                p[1] = last'.key =>
                    Entry(IF hasOwn'[last'.self] THEN own'[last'.self] ELSE classDict', p[2])
                        = Entry(IF hasOwn[last'.self] THEN own[last'.self] ELSE classDict, p[2])]_vars

----------------------------------------------------------------------------
(* C5 *)

\* C5: in every reachable state, set_params given one key that is neither a
\* Spark Param nor a key of the native table ends with the unknown-parameter
\* error and changes nothing.
C5_UnknownKeyRejected ==
    \A i \in Actors :
        \A kv \in Items(cls) :
            (~hasParam(cls, kv[1]) /\ kv[1] \notin DOMAIN cuml_params(InstanceState(i)))
            => LET r == set_params(cls, InstanceState(i), <<kv>>) IN
               /\ r.status = "unsupported_param"
               /\ r.st = InstanceState(i)

----------------------------------------------------------------------------
(* C6 *)

\* C6: a _set_cuml_value(n, v) call, n with a value-mapping table and v no
\* native target but a source key with a non-null target t, completes and
\* leaves t in cuml_params[n].
C6_MappedTargetStored ==
    (/\ last.op = "_set_cuml_value"
     /\ HasTable(cls, last.key)
     /\ last.val \notin Targets(cls, last.key)
     /\ last.val \in DOMAIN _param_value_mapping(cls)[last.key] \ NullSources(cls, last.key))
    => /\ last.status = "ok"
       /\ last.key \in DOMAIN cuml_params(InstanceState(last.self))
       /\ cuml_params(InstanceState(last.self))[last.key]
             = _param_value_mapping(cls)[last.key][last.val]

----------------------------------------------------------------------------
(* C7 *)

\* C7: in every reachable state, _set_cuml_value(n, v) for n with a
\* value-mapping table and v no native target ends with the
\* unsupported-value error and changes nothing, both when v is a source key
\* mapped to null and when v is no source key at all.
C7_UnsupportedValueRejected ==
    \A i \in Actors :
        \A n \in DOMAIN _param_value_mapping(cls) :
            \A v \in CumlValues(cls, n) :
                (/\ v \notin Targets(cls, n)
                 /\ v \in NullSources(cls, n) \/ v \notin DOMAIN _param_value_mapping(cls)[n])
                => LET r == _set_cuml_value(cls, InstanceState(i), n, v) IN
                   /\ r.status = "unsupported_value"
                   /\ r.st = InstanceState(i)

\* A _set_cuml_value call was refused a value that is no source key of the
\* table, with a value already stored under the name.
C7_WitnessNotASource ==
    /\ last.op = "_set_cuml_value"
    /\ last.status = "unsupported_value"
    /\ HasTable(cls, last.key)
    /\ last.val \notin DOMAIN _param_value_mapping(cls)[last.key]
    /\ last.key \in DOMAIN cuml_params(InstanceState(last.self))

----------------------------------------------------------------------------
(* C8 *)

\* The keys through which native name n is set: n itself and the Spark
\* names mapped to it.
KeysFor(c, n) == {n} \cup {p[1] : p \in {q \in MappedPairs(c) : q[2] = n}}

\* C8: in every reachable state, for a native name n with a value-mapping
\* table, a key k that sets it (and that set_params accepts) and a native
\* target v of the table, set_params({k: v}) completes and stores v itself
\* under n, and a second set_params({k: v}) completes and changes nothing.
C8_NativeValueIdempotent ==
    \A i \in Actors :
        \A n \in DOMAIN _param_value_mapping(cls) :
            \A k \in KeysFor(cls, n) :
                \A v \in Targets(cls, n) :
                    (hasParam(cls, k) \/ k \in DOMAIN cuml_params(InstanceState(i)))
                    => LET once == set_params(cls, InstanceState(i), << <<k, v>> >>)
                           twice == set_params(cls, once.st, << <<k, v>> >>)
                       IN
                       /\ once.status = "ok"
                       /\ cuml_params(once.st)[n] = v
                       /\ twice.status = "ok"
                       /\ twice.st = once.st

\* set_params completed on an initialized instance and left, in the Spark
\* store and in the native table, a native target that is also a source key
\* of the table.
C8_Witness ==
    /\ last.op = "set_params"
    /\ last.status = "ok"
    /\ hasOwn[last.self]
    /\ \E p \in MappedPairs(cls) :
        /\ HasTable(cls, p[2])
        /\ p[1] \in DOMAIN paramMap[last.self]
        /\ paramMap[last.self][p[1]] \in Targets(cls, p[2])
        /\ paramMap[last.self][p[1]] \in DOMAIN _param_value_mapping(cls)[p[2]]
        /\ p[2] \in DOMAIN cuml_params(InstanceState(last.self))
        /\ cuml_params(InstanceState(last.self))[p[2]] = paramMap[last.self][p[1]]

----------------------------------------------------------------------------
(* C9 *)

\* C9: after a completed initialize_cuml_params the native table holds, for
\* every mapped Spark Param with a default or an explicit value, that value
\* as the single-value setter stores it under the mapped name, and the
\* introspected default under every other name.
C9_InitializeAppliesDefinedParams ==
    (last.op = "initialize_cuml_params" /\ last.status = "ok")
    => LET st == InstanceState(last.self) IN
       /\ I1(cls, st)
       /\ \A x \in DOMAIN _get_cuml_params_default(cls) :
            (\A p \in MappedPairs(cls) : p[2] # x \/ ~isDefined(cls, st, p[1]))
            => x \in DOMAIN cuml_params(st)
               /\ cuml_params(st)[x] = _get_cuml_params_default(cls)[x]

----------------------------------------------------------------------------
(* C10 *)

\* C10: a clear(p) call on a Spark Param p with a registered default and a
\* native mapping completes with the default, translated where a value
\* mapping exists, in the mapped native entry, or ends with the
\* unsupported-value error when the default has no native equivalent.
C10_ClearReappliesDefault ==
    (/\ last.op = "clear"
     /\ hasDefault(cls, last.key)
     /\ last.key \in Keys(_param_mapping(cls)))
    => LET n == Lookup(_param_mapping(cls), last.key)
           d == DefaultParamMap(cls)[last.key]
           st == InstanceState(last.self)
       IN
       IF HasTable(cls, n) /\ d \notin Targets(cls, n)
             /\ d \notin DOMAIN _param_value_mapping(cls)[n] \ NullSources(cls, n)
       THEN last.status = "unsupported_value"
       ELSE /\ last.status = "ok"
            /\ n \in DOMAIN cuml_params(st)
            /\ Reflects(cls, n, d, cuml_params(st)[n])

----------------------------------------------------------------------------
(* C11 *)

\* The native table of instance i.
TableOf(i) == cuml_params(InstanceState(i))

\* C11: a _copy_cuml_params(to) call leaves the key set of the target's
\* table as it was, gives every key of both tables the source's value,
\* leaves every other key of the target its value, leaves the source's
\* table, the Spark stores and the other instances alone, and returns the
\* target.
C11_CopyKeepsTargetKeys ==
    [][\A self, to \in Instances :
          last'.op = "_copy_cuml_params" /\ last'.self = self /\ last'.key = to
          =>
          /\ DOMAIN TableOf(to)' = DOMAIN TableOf(to)
          /\ \A x \in DOMAIN TableOf(to) :
                TableOf(to)'[x] = IF x \in DOMAIN TableOf(self) THEN TableOf(self)[x]
                                  ELSE TableOf(to)[x]
          /\ TableOf(self)' = TableOf(self)
          /\ last'.val = to
          /\ UNCHANGED <<paramMap, hasOwn>>]_vars

\* A copy between two instances was made from a table that has a key the
\* target's table lacks and a key it shares, the shared key now equal.
C11_Witness ==
    /\ last.op = "_copy_cuml_params"
    /\ last.self # last.key
    /\ DOMAIN TableOf(last.self) \ DOMAIN TableOf(last.key) # {}
    /\ \E x \in DOMAIN TableOf(last.self) \cap DOMAIN TableOf(last.key) :
          /\ TableOf(last.key)[x] = TableOf(last.self)[x]
          /\ TableOf(last.key)[x] # _get_cuml_params_default(cls)[x]
----------------------------------------------------------------------------
(* C12 *)

\* C12: a set_params, clear or _set_cuml_value call on one instance, made
\* before or after that instance's initialize_cuml_params, leaves the
\* native table of every other instance as it was.
C12_TableOwnedByInstance ==
    [][\A self, other \in Instances :
          /\ last'.op \in {"set_params", "clear", "_set_cuml_value"}
          /\ last'.self = self
          /\ other # self
          => TableOf(other)' = TableOf(other)]_vars
----------------------------------------------------------------------------
(* C13 *)

\* The cuML classes of the fixtures.
CumlTypes == UNION {{_cuml_cls(c)[j] : j \in 1..Len(_cuml_cls(c))} : c \in Classes}

\* The lists of cuML classes a _cuml_cls may return.
TypeLists == UNION {[1..n -> CumlTypes] : n \in 0..MaxClasses}

\* The places of the list whose constructor has a parameter x.
Defining(types, x) == {j \in 1..Len(types) : x \in DOMAIN Signature(types[j])}

\* The last of a non-empty set of places.
LastOf(S) == CHOOSE j \in S : \A i \in S : i <= j

\* C13: for every list of cuML classes, the defaults are the constructor
\* parameters of all the classes but the excluded names, each with the
\* default of the last class of the list that has it; the defaults of the
\* class at hand are that merge over its _cuml_cls.
C13_DefaultsMergeLaterWins ==
    /\ _get_cuml_params_default(cls) = MergeDefaults(cls, _cuml_cls(cls), 1, EmptyDict)
    /\ \A types \in TypeLists :
          LET d == MergeDefaults(cls, types, 1, EmptyDict) IN
          /\ DOMAIN d = UNION {DOMAIN Signature(types[j]) : j \in 1..Len(types)}
                          \ _param_excludes(cls)
          /\ \A x \in DOMAIN d : d[x] = Signature(types[LastOf(Defining(types, x))])[x]

\* initialize_cuml_params completed on a class with two cuML classes whose
\* constructors share a parameter with different defaults and have an
\* excluded parameter; the table holds the later default.
C13_Witness ==
    /\ last.op = "initialize_cuml_params" /\ last.status = "ok"
    /\ Len(_cuml_cls(cls)) = 2
    /\ \E x \in DOMAIN Signature(_cuml_cls(cls)[1]) \cap DOMAIN Signature(_cuml_cls(cls)[2]) :
          /\ x \notin _param_excludes(cls)
          /\ Signature(_cuml_cls(cls)[1])[x] # Signature(_cuml_cls(cls)[2])[x]
          /\ own[last.self][x] = Signature(_cuml_cls(cls)[2])[x]
    /\ DOMAIN Signature(_cuml_cls(cls)[2]) \cap _param_excludes(cls) # {}
    /\ DOMAIN own[last.self] \cap _param_excludes(cls) = {}
----------------------------------------------------------------------------
(* C14 *)

\* The Spark Params of class c whose mapping targets the cuML name k.
ParamsFor(c, k) ==
    {s \in Keys(_param_mapping(c)) : Lookup(_param_mapping(c), s) = k /\ hasParam(c, s)}

\* C14: in every reachable state, set_params of one key k that is a key of
\* the native table and no Spark Param stores the raw value at
\* cuml_params[k], gives every Spark Param mapped to k that raw value, and
\* changes no other native entry and no other Spark Param.
C14_NativeKeyStoredRaw ==
    \A i \in Instances : \A k \in KeysOf(cls) : \A v \in ValuesOf(cls, k) :
        LET st == InstanceState(i)
            r == set_params(cls, st, <<<<k, v>>>>)
        IN
        k \in DOMAIN cuml_params(st) /\ ~hasParam(cls, k)
        => /\ cuml_params(r.st) = SetItem(cuml_params(st), k, v)
           /\ DOMAIN r.st.pm = DOMAIN st.pm \cup ParamsFor(cls, k)
           /\ \A s \in DOMAIN r.st.pm :
                 r.st.pm[s] = IF s \in ParamsFor(cls, k) THEN v ELSE st.pm[s]
           /\ r.st.has = st.has

\* A completed set_params left a value that the value mapping marks as
\* unsupported both in the native table and in the Spark Param mapped to it:
\* the raw store through the native name.
C14_Witness ==
    /\ last.op = "set_params" /\ last.status = "ok"
    /\ \E s \in Keys(_param_mapping(cls)) :
          LET k == Lookup(_param_mapping(cls), s) IN
          /\ s # k
          /\ s \in DOMAIN paramMap[last.self]
          /\ k \in DOMAIN TableOf(last.self)
          /\ k \in DOMAIN _param_value_mapping(cls)
          /\ TableOf(last.self)[k] = paramMap[last.self][s]
          /\ Get(_param_value_mapping(cls)[k], TableOf(last.self)[k]) = None
          /\ TableOf(last.self)[k] \in DOMAIN _param_value_mapping(cls)[k]
----------------------------------------------------------------------------
(* C15 *)

\* C15: from every reachable state, initialize_cuml_params with a cuML
\* class that cannot be introspected ends with the introspection error,
\* and a call that ended with it left the native tables, the Spark stores
\* and the ownership of the tables as they were.
C15_IntrospectionFailureKeepsTable ==
    [][/\ \A i \in Instances : \A j \in 1..Len(_cuml_cls(cls)) :
             initialize_cuml_params(cls, InstanceState(i), {_cuml_cls(cls)[j]}).status
                = "introspection_error"
       /\ last'.op = "initialize_cuml_params" /\ last'.status = "introspection_error"
          => UNCHANGED <<paramMap, classDict, own, hasOwn>>]_vars

\* An introspection failure on a class with two cuML classes, met by an
\* instance whose table holds a value that is no default.
C15_Witness ==
    /\ last.op = "initialize_cuml_params" /\ last.status = "introspection_error"
    /\ Len(_cuml_cls(cls)) = 2
    /\ hasOwn[last.self]
    /\ \E x \in DOMAIN own[last.self] :
          own[last.self][x] # Get(_get_cuml_params_default(cls), x)
----------------------------------------------------------------------------
(* C16 *)

\* The instance st with the native table of a new instance.
Blank(st) == [st EXCEPT !.has = FALSE, !.own = EmptyDict, !.cd = EmptyDict]

\* The keys of the table of st that no mapping targets, holding a value
\* that is not the default.
NativeOnlySet(c, st) ==
    {x \in DOMAIN cuml_params(st) \ CumlNames(c) :
        cuml_params(st)[x] # Get(_get_cuml_params_default(c), x)}

\* C16: in every reachable state initialize_cuml_params gives the table and
\* the outcome it gives on a new instance with the same Spark store, the
\* keys no mapping targets hold their defaults again, the Spark store is
\* as before, and a second call right after it gives the same table and
\* outcome.
C16_InitializeIgnoresOldTable ==
    \A i \in Instances :
        LET st == InstanceState(i)
            r == initialize_cuml_params(cls, st, {})
            rb == initialize_cuml_params(cls, Blank(st), {})
            r2 == initialize_cuml_params(cls, r.st, {})
        IN
        /\ r.st.has
        /\ cuml_params(r.st) = cuml_params(rb.st) /\ r.status = rb.status
        /\ NativeOnlySet(cls, r.st) = {}
        /\ r.st.pm = st.pm
        /\ cuml_params(r2.st) = cuml_params(r.st) /\ r2.status = r.status

\* A completed set_params left an initialized instance with a value that
\* is not the default at a key no mapping targets; initialize_cuml_params
\* from here changes the table.
C16_Witness ==
    /\ last.op = "set_params" /\ last.status = "ok"
    /\ hasOwn[last.self]
    /\ NativeOnlySet(cls, InstanceState(last.self)) # {}
    /\ cuml_params(initialize_cuml_params(cls, InstanceState(last.self), {}).st)
          # TableOf(last.self)
----------------------------------------------------------------------------
(* C17 *)

\* The three cases of lines 177, 183 and 192 for key k on instance st.
SparkCase(c, st, k) == hasParam(c, k)
NativeCase(c, st, k) == k \in DOMAIN cuml_params(st) /\ ~hasParam(c, k)
ErrorCase(c, st, k) == UnsupportedParam(c, st, _param_mapping(c), k)

\* C17: in every reachable state and for every key, no two of the Spark
\* Param case, the native key case and the error case apply, and a one-key
\* set_params does what the one case that applies does: a Spark Param is
\* set and the native table changes at most at the name its mapping gives,
\* not at all when it has no mapping; a native key is stored; an
\* unsupported key is rejected with nothing changed; a key in no case
\* changes nothing.
C17_CasesExclusive ==
    \A i \in Instances : \A k \in KeysOf(cls) : \A v \in ValuesOf(cls, k) :
        LET st == InstanceState(i)
            param_map == _param_mapping(cls)
            r == set_params(cls, st, <<<<k, v>>>>)
            spark == SparkCase(cls, st, k)
            native == NativeCase(cls, st, k)
            err == ErrorCase(cls, st, k)
        IN
        /\ ~(spark /\ native) /\ ~(spark /\ err) /\ ~(native /\ err)
        /\ spark =>
              /\ r.st.pm = SetItem(st.pm, k, v)
              /\ r.status \in {"ok", "unsupported_value"}
              /\ IF k \in Keys(param_map)
                 THEN /\ DOMAIN cuml_params(r.st) \subseteq
                            DOMAIN cuml_params(st) \cup {Lookup(param_map, k)}
                      /\ \A x \in DOMAIN cuml_params(st) \ {Lookup(param_map, k)} :
                            cuml_params(r.st)[x] = cuml_params(st)[x]
                 ELSE cuml_params(r.st) = cuml_params(st)
        /\ native => r.status # "unsupported_param" /\ cuml_params(r.st)[k] = v
        /\ err => r.status = "unsupported_param" /\ r.st = st
        /\ ~spark /\ ~native /\ ~err => r.status = "ok" /\ r.st = st

\* A completed set_params set a Spark Param that has no mapping and whose
\* name is also a key of the native table; the table entry kept its value.
C17_Witness ==
    /\ last.op = "set_params" /\ last.status = "ok"
    /\ \E k \in DOMAIN paramMap[last.self] \cap DOMAIN TableOf(last.self) :
          /\ hasParam(cls, k)
          /\ k \notin Keys(_param_mapping(cls))
          /\ paramMap[last.self][k] # TableOf(last.self)[k]
----------------------------------------------------------------------------
(* C18 *)

\* The names the table of an initialized instance of class c may have.
AllowedKeys(c) == DOMAIN _get_cuml_params_default(c) \cup CumlNames(c)

\* C18: the table of an initialized instance has only keys that are names
\* of the introspected defaults or targets of the name mapping; a
\* set_params, clear, _set_cuml_value or _copy_cuml_params call removes no
\* key of any table; and a one-key set_params of a name that is no Spark
\* Param leaves the key set of the table as it is.
C18_KeySetBounded ==
    [][/\ \A i \in Instances : hasOwn'[i] => DOMAIN own'[i] \subseteq AllowedKeys(cls)
       /\ last'.op # "initialize_cuml_params"
          => \A i \in Instances : /\ DOMAIN TableOf(i) \subseteq DOMAIN TableOf(i)'
                                  /\ hasOwn'[i] = hasOwn[i]
       /\ \A i \in Instances : \A k \in KeysOf(cls) : \A v \in ValuesOf(cls, k) :
             ~hasParam(cls, k)
             => DOMAIN cuml_params(set_params(cls, InstanceState(i), <<<<k, v>>>>).st)
                   = DOMAIN TableOf(i)]_vars

\* A completed set_params on an initialized instance added a key that is no
\* name of the defaults: the target of a mapping.
C18_Witness ==
    /\ last.op = "set_params" /\ last.status = "ok"
    /\ hasOwn[last.self]
    /\ DOMAIN own[last.self] \ DOMAIN _get_cuml_params_default(cls) # {}
    /\ DOMAIN _get_cuml_params_default(cls) \subseteq DOMAIN own[last.self]

====
